---- MODULE Spec2Model ----
(***************************************************************************)
(* EmulatorDriver (detox/src/devices/drivers/EmulatorDriver.js): the       *)
(* acquisition / boot / shutdown orchestration of Android emulators.       *)
(*                                                                         *)
(* Every `await` of the driver is a step of the calling async function;    *)
(* several calls on one driver instance interleave at those steps.         *)
(* JavaScript `undefined` is the value Undefined; strings that the driver  *)
(* builds or takes apart (device names, config values) are sequences of    *)
(* one-character strings.                                                  *)
(***************************************************************************)
EXTENDS Integers, Sequences, FiniteSets, TLC

VARIABLES
    avds,          \* what emulator.listAvds() answers: Undefined or a list of names
    config,        \* config.ini of every installed AVD: key -> value or Undefined
    pendingBoots,  \* this.pendingBoots: the entries [adbName, port], one per key
    running,       \* emulator instances adb lists: [adbName, name, port]
    busy,          \* device ids the registry holds as taken
    killed,        \* console ports whose instance a kill command ended
    calls,         \* calls started so far on this driver
    pc,            \* per caller: the await the call is suspended at
    op,            \* per caller: "acquire" | "shutdown" | "none"
    arg,           \* per caller: avdName (acquire) or deviceId (shutdown)
    adbName,       \* per caller: acquireFreeDevice's local adbName
    coldBoot,      \* per caller: _bootIfNeeded's local coldBoot
    err,           \* per caller: the error the call was rejected with
    result,        \* per caller: the value the call resolved with
    telnet,        \* per caller: shutdown's EmulatorTelnet session
    log            \* per caller: the collaborator calls the current call issued

vars == <<avds, config, pendingBoots, running, busy, killed, calls, pc, op, arg,
          adbName, coldBoot, err, result, telnet, log>>

----------------------------------------------------------------------------
(* Bounds of the model *)

NumCallers == 2
MaxCalls == 3
RandomSteps == 2
MaxEarlyReady == 2
MintSteps == 20000

Callers == 1..NumCallers

----------------------------------------------------------------------------
(* JavaScript values *)

Undefined == <<"undefined">>

Digits == <<"0", "1", "2", "3", "4", "5", "6", "7", "8", "9">>

RECURSIVE ToDecimal(_)
ToDecimal(n) ==
    IF n < 10 THEN <<Digits[n + 1]>>
    ELSE ToDecimal(n \div 10) \o <<Digits[(n % 10) + 1]>>

\* _.split(s, sep): the segments of s between occurrences of sep
RECURSIVE SplitFrom(_, _, _, _)
SplitFrom(s, sep, i, cur) ==
    IF i > Len(s) THEN <<cur>>
    ELSE IF s[i] = sep THEN <<cur>> \o SplitFrom(s, sep, i + 1, <<>>)
    ELSE SplitFrom(s, sep, i + 1, Append(cur, s[i]))

split(s, sep) == SplitFrom(s, sep, 1, <<>>)

\* xs[i] of a JavaScript array, 0-based
At(xs, i) == IF i + 1 <= Len(xs) THEN xs[i + 1] ELSE Undefined

Range(xs) == {xs[i] : i \in 1..Len(xs)}

----------------------------------------------------------------------------
(* Constants of the driver *)

DetoxEmulatorsPortRangeMin == 10000
DetoxEmulatorsPortRangeMax == 20000
\* (mutation) one retry fewer
BootRetries_OneFewer == 120 - 1

BootRetries == 120
BootInterval == 5000

\* Math.random() draws k / RandomSteps, k in 0..RandomSteps-1
RandomDraws == 0..(RandomSteps - 1)

\* Math.random() draws k / MintSteps, k in 0..MintSteps-1
MintDraws == 0..(MintSteps - 1)

\* a & b on w-bit naturals
RECURSIVE BitAnd(_, _, _)
BitAnd(a, b, w) ==
    IF w = 0 THEN 0
    ELSE (a % 2) * (b % 2) + 2 * BitAnd(a \div 2, b \div 2, w - 1)

\* the lower 31 bits of ~0 - 1 = -2: 1...10
AllButBit0 == 2147483646

\* (mutation) line 129 only truncating, bit 0 kept
ClearBit0_Kept(x) == x

\* x & (~0 - 1) for a 32-bit x >= 0: the sign bit stays 0, bit 0 is cleared
ClearBit0(x) == BitAnd(x, AllButBit0, 31)

\* port = Math.random() * (max - min) + min; port = port & (~0 - 1)
\* with Math.random() = num / den; & first truncates to a 32-bit integer
RandomPort(num, den) ==
    LET min == DetoxEmulatorsPortRangeMin
        max == DetoxEmulatorsPortRangeMax
        real == (num * (max - min)) \div den + min
    IN  ClearBit0(real)

PortOfDraw(k) == RandomPort(k, RandomSteps)

\* `emulator-${port}`
DeviceName(port) == <<"e", "m", "u", "l", "a", "t", "o", "r", "-">> \o ToDecimal(port)

----------------------------------------------------------------------------
(* Inputs *)

Pixel == "Pixel_2_API_26"
Nexus == "Nexus_5X_API_24"
Ghost == "Ghost_API_0"

AvdNames == {Pixel, Nexus, Ghost}

W1080 == <<"1", "0", "8", "0">>
H1920 == <<"1", "9", "2", "0">>

ConfigKeys == {"skin.name", "hw.lcd.width", "hw.lcd.height", "hw.ramSize"}

RepairableConfig ==
    [k \in ConfigKeys |->
        CASE k = "skin.name" -> Undefined
          [] k = "hw.lcd.width" -> W1080
          [] k = "hw.lcd.height" -> H1920
          [] OTHER -> <<"5", "1", "2">>]

CorruptConfig == [RepairableConfig EXCEPT !["hw.lcd.width"] = Undefined]

\* a skin name that config.ini already has
SkinPixel2 == <<"p", "i", "x", "e", "l", "_", "2">>

\* the parsed config.ini files _fixEmulatorConfigIniSkinNameIfNeeded is run on:
\* each of the three keys absent, empty or set
ConfigInputs ==
    {[RepairableConfig EXCEPT !["skin.name"] = s,
                              !["hw.lcd.width"] = w,
                              !["hw.lcd.height"] = h] :
        s \in {Undefined, <<>>, SkinPixel2},
        w \in {Undefined, <<>>, W1080},
        h \in {Undefined, <<>>, H1920}}

MintableIds == {DeviceName(PortOfDraw(k)) : k \in RandomDraws}

MalformedDeviceId == <<"e", "m", "u", "l", "a", "t", "o", "r", "5", "5", "5", "4">>

\* "emulator-5554"
ExampleDeviceId == DeviceName(5554)

DeviceIdInputs == MintableIds \cup {ExampleDeviceId, MalformedDeviceId}

\* the index of the first isBootComplete answer that is true (2 * BootRetries:
\* the device does not boot)
ReadyAts ==
    (1..MaxEarlyReady) \cup {BootRetries - 1, BootRetries, BootRetries + 1, 2 * BootRetries}

----------------------------------------------------------------------------
(* Helpers on the state *)

\* one awaited step or hook call, with its arguments and how it ended
Call(name, a, res) == [call |-> name, arg |-> a, res |-> res]

Outcome(ok) == IF ok THEN "resolved" ELSE "rejected"

Issued(c, name) == {i \in 1..Len(log[c]) : log[c][i].call = name}

Step(c, next) == pc' = [pc EXCEPT ![c] = next]

Log(c, name, a, res) == log' = [log EXCEPT ![c] = Append(@, Call(name, a, res))]

Throw(c, e) ==
    /\ pc' = [pc EXCEPT ![c] = "failed"]
    /\ err' = [err EXCEPT ![c] = e]

NoError == [kind |-> "none", deviceId |-> Undefined]

Error(kind, id) == [kind |-> kind, deviceId |-> id]

Init ==
    /\ avds \in {Undefined, <<Pixel, Nexus>>}
    /\ config = [n \in {Pixel, Nexus} |->
                    IF n = Pixel THEN RepairableConfig ELSE CorruptConfig]
    /\ pendingBoots = {}
    /\ running = {}
    /\ busy = {}
    /\ killed = {}
    /\ calls = 0
    /\ pc = [c \in Callers |-> "idle"]
    /\ op = [c \in Callers |-> "none"]
    /\ arg = [c \in Callers |-> Undefined]
    /\ adbName = [c \in Callers |-> Undefined]
    /\ coldBoot = [c \in Callers |-> FALSE]
    /\ err = [c \in Callers |-> NoError]
    /\ result = [c \in Callers |-> Undefined]
    /\ telnet = [c \in Callers |-> "none"]
    /\ log = [c \in Callers |-> <<>>]

----------------------------------------------------------------------------
(* this.pendingBoots *)

\* (mutation) the port read is not the one stored
PendingPort_Shifted(id) ==
    IF \E e \in pendingBoots : e.adbName = id
    THEN (CHOOSE e \in pendingBoots : e.adbName = id).port + 2
    ELSE 0

\* this.pendingBoots[id]: the port, or 0 where JavaScript reads undefined
PendingPort(id) ==
    IF \E e \in pendingBoots : e.adbName = id
    THEN (CHOOSE e \in pendingBoots : e.adbName = id).port
    ELSE 0

\* this.pendingBoots[id] = port
SetPending(id, port) ==
    {e \in pendingBoots : e.adbName # id} \cup {[adbName |-> id, port |-> port]}

\* (mutation) the delete empties the map
DeletePending_All(id) == {}

\* delete this.pendingBoots[id]
DeletePending(id) == {e \in pendingBoots : e.adbName # id}

----------------------------------------------------------------------------
(* acquireFreeDevice(avdName) *)

\* an awaited call that resolves (ok) or rejects with e
Await(c, name, a, ok, next, e) ==
    /\ Log(c, name, a, Outcome(ok))
    /\ IF ok
       THEN Step(c, next) /\ UNCHANGED err
       ELSE Throw(c, e)

\* a call starts on caller c
Begin(c, kind, a) ==
    /\ pc[c] \in {"idle", "returned", "failed"}
    /\ calls < MaxCalls
    /\ calls' = calls + 1
    /\ op' = [op EXCEPT ![c] = kind]
    /\ arg' = [arg EXCEPT ![c] = a]
    /\ adbName' = [adbName EXCEPT ![c] = Undefined]
    /\ coldBoot' = [coldBoot EXCEPT ![c] = FALSE]
    /\ result' = [result EXCEPT ![c] = Undefined]
    /\ telnet' = [telnet EXCEPT ![c] = "none"]

acquireFreeDevice(c, avdName) ==
    /\ Begin(c, "acquire", avdName)
    /\ pc' = [pc EXCEPT ![c] = "validateAvd"]
    /\ err' = [err EXCEPT ![c] = NoError]
    /\ log' = [log EXCEPT ![c] = <<>>]
    /\ UNCHANGED <<avds, config, pendingBoots, running, busy, killed>>

\* _.indexOf(xs, x): the 0-based index of the first x in xs, or -1
indexOf(xs, x) ==
    IF x \in Range(xs)
    THEN (CHOOSE i \in 1..Len(xs) : xs[i] = x /\ \A j \in 1..(i - 1) : xs[j] # x) - 1
    ELSE -1

\* (mutation) _validateAvd without the membership test of lines 70-73
ValidateAvdError_NoMembership(list, avdName) ==
    IF list = Undefined THEN "NoProfilesConfigured" ELSE "none"

\* what _validateAvd throws for the list listAvds answered
ValidateAvdError(list, avdName) ==
    IF list = Undefined THEN "NoProfilesConfigured"
    ELSE IF indexOf(list, avdName) = -1 THEN "ProfileNotFound"
    ELSE "none"

validateAvd(c) ==
    LET e == ValidateAvdError(avds, arg[c])
    IN
    /\ pc[c] = "validateAvd"
    /\ Await(c, "validateAvd", <<arg[c]>>, e = "none", "fixConfig", Error(e, Undefined))
    /\ UNCHANGED <<avds, config, pendingBoots, running, busy, killed, calls, op, arg,
                   adbName, coldBoot, result, telnet>>

\* !v of a value read from config.ini: undefined and the empty string are falsy
Falsy(v) == v = Undefined \/ v = <<>>

\* (mutation) height first
SkinNameOf_HeightFirst(width, height) == height \o <<"x">> \o width

\* `${width}x${height}`
SkinNameOf(width, height) == width \o <<"x">> \o height

\* _fixEmulatorConfigIniSkinNameIfNeeded on the parsed config.ini:
\* what is thrown, whether the file is written, and its content afterwards
\* fs.readFileSync throws when the AVD has no config.ini
ConfigOf(avdName) ==
    IF avdName \in DOMAIN config THEN config[avdName] ELSE Undefined

\* (mutation) line 105 testing the width alone
FixSkinName_WidthOnly(cfg) ==
    LET width == cfg["hw.lcd.width"]
        height == cfg["hw.lcd.height"]
    IN  IF cfg = Undefined
        THEN [error |-> "ConfigUnreadable", wrote |-> FALSE, config |-> cfg]
        ELSE IF ~Falsy(cfg["skin.name"])
        THEN [error |-> "none", wrote |-> FALSE, config |-> cfg]
        ELSE IF width = Undefined
        THEN [error |-> "CorruptProfileConfig", wrote |-> FALSE, config |-> cfg]
        ELSE [error |-> "none", wrote |-> TRUE,
              config |-> [cfg EXCEPT !["skin.name"] = SkinNameOf(width, height)]]

FixSkinName(cfg) ==
    LET width == cfg["hw.lcd.width"]
        height == cfg["hw.lcd.height"]
    IN  IF cfg = Undefined
        THEN [error |-> "ConfigUnreadable", wrote |-> FALSE, config |-> cfg]
        ELSE IF ~Falsy(cfg["skin.name"])
        THEN [error |-> "none", wrote |-> FALSE, config |-> cfg]
        ELSE IF width = Undefined \/ height = Undefined
        THEN [error |-> "CorruptProfileConfig", wrote |-> FALSE, config |-> cfg]
        ELSE [error |-> "none", wrote |-> TRUE,
              config |-> [cfg EXCEPT !["skin.name"] = SkinNameOf(width, height)]]

fixEmulatorConfigIniSkinNameIfNeeded(c) ==
    LET fixed == FixSkinName(ConfigOf(arg[c]))
    IN
    /\ pc[c] = "fixConfig"
    /\ config' = IF fixed.wrote THEN [config EXCEPT ![arg[c]] = fixed.config] ELSE config
    /\ Await(c, "fixConfig", <<arg[c], fixed.wrote>>, fixed.error = "none",
             "getDevice", Error(fixed.error, Undefined))
    /\ UNCHANGED <<avds, pendingBoots, running, busy, killed, calls, op, arg,
                   adbName, coldBoot, result, telnet>>

----------------------------------------------------------------------------
(* The hooks the driver hands to the DeviceRegistry *)

\* deviceRegistry.isBusy(adbName)
isBusy(id) == id \in busy

\* the predicate _getDeviceIdsByType gives to adb.findDevice
CandidateMatches(candidate, name) ==
    candidate.name = name /\ isBusy(candidate.adbName)

\* _getDeviceIdsByType(name): the adbNames adb.findDevice may answer
\* (the first listed device that matches), or Undefined when none matches
getDeviceIdsByType(name) ==
    IF \E d \in running : CandidateMatches(d, name)
    THEN {d.adbName : d \in {x \in running : CandidateMatches(x, name)}}
    ELSE {Undefined}

\* _createDevice() with Math.random() = num / den: the name minted and
\* this.pendingBoots after the call
createDeviceDrawing(num, den) ==
    LET port == RandomPort(num, den)
        minted == DeviceName(port)
    IN  [adbName |-> minted, port |-> port, pendingBoots |-> SetPending(minted, port)]

createDevice(k) == createDeviceDrawing(k, RandomSteps)

\* deviceRegistry.getDevice(avdName): under the registry's lock, the existing
\* device the lookup hook answers, else the one createDevice mints; the device
\* is then marked as taken
getDevice(c, k) ==
    /\ pc[c] = "getDevice"
    /\ \E found \in getDeviceIdsByType(arg[c]) :
        IF found # Undefined
        THEN /\ k = 0
             /\ adbName' = [adbName EXCEPT ![c] = found]
             /\ busy' = busy \cup {found}
             /\ log' = [log EXCEPT ![c] = @ \o
                    <<Call("getDeviceIdsByType", <<arg[c], found>>, "resolved"),
                      Call("getDevice", <<arg[c], found>>, "resolved")>>]
             /\ UNCHANGED pendingBoots
        ELSE LET made == createDevice(k)
             IN  /\ pendingBoots' = made.pendingBoots
                 /\ adbName' = [adbName EXCEPT ![c] = made.adbName]
                 /\ busy' = busy \cup {made.adbName}
                 /\ log' = [log EXCEPT ![c] = @ \o
                        <<Call("getDeviceIdsByType", <<arg[c], found>>, "resolved"),
                          Call("createDevice", <<made.adbName, made.port>>, "resolved"),
                          Call("getDevice", <<arg[c], made.adbName>>, "resolved")>>]
    /\ Step(c, "bootIfNeeded")
    /\ UNCHANGED <<avds, config, running, killed, calls, op, arg, coldBoot, err, result, telnet>>

\* deviceRegistry.getDevice rejects (the lock file cannot be taken)
getDeviceFails(c) ==
    /\ pc[c] = "getDevice"
    /\ Await(c, "getDevice", <<arg[c], Undefined>>, FALSE, "bootIfNeeded",
             Error("RegistryError", Undefined))
    /\ UNCHANGED <<avds, config, pendingBoots, running, busy, killed, calls, op, arg,
                   adbName, coldBoot, result, telnet>>

----------------------------------------------------------------------------
(* _bootIfNeeded(avdName, adbName) *)

\* !!this.pendingBoots[adbName]
IsColdBoot(id) == PendingPort(id) # 0

\* lines 46-50: decide, and when cold issue emulator.boot(avdName, {port})
bootIfNeeded(c) ==
    /\ pc[c] = "bootIfNeeded"
    /\ coldBoot' = [coldBoot EXCEPT ![c] = IsColdBoot(adbName[c])]
    /\ IF IsColdBoot(adbName[c])
       THEN /\ Log(c, "boot", <<arg[c], PendingPort(adbName[c])>>, "pending")
            /\ Step(c, "booting")
       ELSE /\ Step(c, "waitForBoot")
            /\ UNCHANGED log
    /\ UNCHANGED <<avds, config, pendingBoots, running, busy, killed, calls, op, arg,
                   adbName, err, result, telnet>>

\* the port of the boot command c awaits
BootPort(c) == log[c][Len(log[c])].arg[2]

Settle(c, res) == log' = [log EXCEPT ![c][Len(log[c])].res = res]

\* emulator.boot resolves: the instance runs; line 51 deletes the entry
bootResolves(c) ==
    /\ pc[c] = "booting"
    /\ \A d \in running : d.port # BootPort(c)
    /\ running' = running \cup
          {[adbName |-> DeviceName(BootPort(c)), name |-> arg[c], port |-> BootPort(c)]}
    /\ killed' = killed \ {ToDecimal(BootPort(c))}
    /\ pendingBoots' = DeletePending(adbName[c])
    /\ Settle(c, "resolved")
    /\ Step(c, "waitForBoot")
    /\ UNCHANGED <<avds, config, busy, calls, op, arg, adbName, coldBoot, err,
                   result, telnet>>

\* emulator.boot rejects: _bootIfNeeded and acquireFreeDevice reject with it
bootRejects(c) ==
    /\ pc[c] = "booting"
    /\ Settle(c, "rejected")
    /\ Throw(c, Error("BootFailed", adbName[c]))
    /\ UNCHANGED <<avds, config, pendingBoots, running, busy, killed, calls, op, arg,
                   adbName, coldBoot, result, telnet>>

----------------------------------------------------------------------------
(* _waitForBootToComplete(deviceId) *)

\* adb.isBootComplete at the attempt-th check, the device being ready from
\* the readyAt-th check on
isBootComplete(attempt, readyAt) == attempt >= readyAt

\* (mutation) the test of line 80 inverted
BootCheckThrows_Inverted(bootComplete) == bootComplete

\* the retried function throws when the boot is not complete (lines 80-84)
BootCheckThrows(bootComplete) == ~bootComplete

\* retry({retries, interval}, func): func is run until it does not throw, at
\* most `retries` times; the last error is thrown when all runs threw.
\* checks is the number of runs of func.
retry(retries, readyAt) ==
    LET passing == {a \in 1..retries : ~BootCheckThrows(isBootComplete(a, readyAt))}
    IN  IF passing # {}
        THEN [ok |-> TRUE, checks |-> CHOOSE a \in passing : \A b \in passing : a <= b]
        ELSE [ok |-> FALSE, checks |-> retries]

waitForBootToComplete(c, readyAt) ==
    LET polled == retry(BootRetries, readyAt)
    IN
    /\ pc[c] = "waitForBoot"
    /\ Await(c, "waitForBoot", <<adbName[c], polled.checks, readyAt>>, polled.ok,
             "emitBootDevice", Error("BootTimeout", adbName[c]))
    /\ UNCHANGED <<avds, config, pendingBoots, running, busy, killed, calls, op, arg,
                   adbName, coldBoot, result, telnet>>

----------------------------------------------------------------------------
(* The rest of _bootIfNeeded and of acquireFreeDevice *)

\* (mutation) the notification always says coldBoot: true
emitBootDevice_AlwaysCold(c, ok) ==
    /\ pc[c] = "emitBootDevice"
    /\ Await(c, "emit:bootDevice", <<TRUE, adbName[c]>>, ok,
             "apiLevel", Error("ObserverFailed", adbName[c]))
    /\ UNCHANGED <<avds, config, pendingBoots, running, busy, killed, calls, op, arg,
                   adbName, coldBoot, result, telnet>>

\* line 55: await this.emitter.emit('bootDevice', { coldBoot, deviceId })
emitBootDevice(c, ok) ==
    /\ pc[c] = "emitBootDevice"
    /\ Await(c, "emit:bootDevice", <<coldBoot[c], adbName[c]>>, ok,
             "apiLevel", Error("ObserverFailed", adbName[c]))
    /\ UNCHANGED <<avds, config, pendingBoots, running, busy, killed, calls, op, arg,
                   adbName, coldBoot, result, telnet>>

\* (mutation) acquireFreeDevice goes on after apiLevel rejected
apiLevel_IgnoresFailure(c, ok) ==
    /\ pc[c] = "apiLevel"
    /\ Log(c, "apiLevel", <<adbName[c]>>, Outcome(ok))
    /\ Step(c, "unlockScreen")
    /\ UNCHANGED <<avds, config, pendingBoots, running, busy, killed, calls, op, arg,
                   adbName, coldBoot, err, result, telnet>>

\* line 39: await this.adb.apiLevel(adbName)
apiLevel(c, ok) ==
    /\ pc[c] = "apiLevel"
    /\ Await(c, "apiLevel", <<adbName[c]>>, ok,
             "unlockScreen", Error("AdbFailed", adbName[c]))
    /\ UNCHANGED <<avds, config, pendingBoots, running, busy, killed, calls, op, arg,
                   adbName, coldBoot, result, telnet>>

\* lines 40-42: await this.adb.unlockScreen(adbName); return adbName
unlockScreen(c, ok) ==
    /\ pc[c] = "unlockScreen"
    /\ Await(c, "unlockScreen", <<adbName[c]>>, ok,
             "returned", Error("AdbFailed", adbName[c]))
    /\ result' = [result EXCEPT ![c] = IF ok THEN adbName[c] ELSE Undefined]
    /\ UNCHANGED <<avds, config, pendingBoots, running, busy, killed, calls, op, arg,
                   adbName, coldBoot, telnet>>

----------------------------------------------------------------------------
(* shutdown(deviceId) *)

\* (mutation) the first segment instead of the second
PortOfDeviceId_FirstSegment(deviceId) == At(split(deviceId, "-"), 0)

\* line 90: _.split(deviceId, '-')[1]
PortOfDeviceId(deviceId) == At(split(deviceId, "-"), 1)

\* an emulator console answers on the port
Listening(port) == \E d \in running : ToDecimal(d.port) = port

\* line 89: the call starts and awaits emit('beforeShutdownDevice', { deviceId })
shutdown(c, deviceId, ok) ==
    /\ Begin(c, "shutdown", deviceId)
    /\ log' = [log EXCEPT ![c] =
            <<Call("emit:beforeShutdownDevice", <<deviceId>>, Outcome(ok))>>]
    /\ IF ok
       THEN /\ pc' = [pc EXCEPT ![c] = "telnetConnect"]
            /\ err' = [err EXCEPT ![c] = NoError]
       ELSE Throw(c, Error("ObserverFailed", deviceId))
    /\ UNCHANGED <<avds, config, pendingBoots, running, busy, killed>>

\* lines 90-92: const telnet = new EmulatorTelnet(); await telnet.connect(port)
telnetConnect(c, ok) ==
    LET port == PortOfDeviceId(arg[c])
    IN
    /\ pc[c] = "telnetConnect"
    /\ ok => (port = Undefined \/ Listening(port))
    /\ Await(c, "connect", <<port, port \in killed>>, ok,
             "telnetKill", Error("ControlChannelError", arg[c]))
    /\ telnet' = [telnet EXCEPT ![c] = IF ok THEN "open" ELSE "none"]
    /\ UNCHANGED <<avds, config, pendingBoots, running, busy, killed, calls, op, arg,
                   adbName, coldBoot, result>>

\* (mutation) shutdown goes on after telnet.kill() rejected
telnetKill_IgnoresFailure(c, ok) ==
    LET port == PortOfDeviceId(arg[c])
    IN
    /\ pc[c] = "telnetKill"
    /\ Log(c, "kill", <<port>>, Outcome(ok))
    /\ Step(c, "emitShutdownDevice")
    /\ running' = IF ok THEN {d \in running : ToDecimal(d.port) # port} ELSE running
    /\ killed' = IF ok /\ Listening(port) THEN killed \cup {port} ELSE killed
    /\ UNCHANGED <<avds, config, pendingBoots, busy, calls, op, arg,
                   adbName, coldBoot, err, result, telnet>>

\* line 93: await telnet.kill()
telnetKill(c, ok) ==
    LET port == PortOfDeviceId(arg[c])
    IN
    /\ pc[c] = "telnetKill"
    /\ Await(c, "kill", <<port>>, ok,
             "emitShutdownDevice", Error("ControlChannelError", arg[c]))
    /\ running' = IF ok THEN {d \in running : ToDecimal(d.port) # port} ELSE running
    /\ killed' = IF ok /\ Listening(port) THEN killed \cup {port} ELSE killed
    /\ UNCHANGED <<avds, config, pendingBoots, busy, calls, op, arg,
                   adbName, coldBoot, result, telnet>>

\* lines 94-95: await this.emitter.emit('shutdownDevice', { deviceId })
emitShutdownDevice(c, ok) ==
    /\ pc[c] = "emitShutdownDevice"
    /\ Await(c, "emit:shutdownDevice", <<arg[c]>>, ok,
             "returned", Error("ObserverFailed", arg[c]))
    /\ UNCHANGED <<avds, config, pendingBoots, running, busy, killed, calls, op, arg,
                   adbName, coldBoot, result, telnet>>

----------------------------------------------------------------------------

Next ==
    \E c \in Callers :
        \/ \E avdName \in AvdNames : acquireFreeDevice(c, avdName)
        \/ validateAvd(c)
        \/ fixEmulatorConfigIniSkinNameIfNeeded(c)
        \/ \E k \in RandomDraws : getDevice(c, k)
        \/ getDeviceFails(c)
        \/ bootIfNeeded(c)
        \/ bootResolves(c)
        \/ bootRejects(c)
        \/ \E readyAt \in ReadyAts : waitForBootToComplete(c, readyAt)
        \/ \E ok \in BOOLEAN : emitBootDevice(c, ok)
        \/ \E ok \in BOOLEAN : apiLevel(c, ok)
        \/ \E ok \in BOOLEAN : unlockScreen(c, ok)
        \/ \E deviceId \in DeviceIdInputs, ok \in BOOLEAN : shutdown(c, deviceId, ok)
        \/ \E ok \in BOOLEAN : telnetConnect(c, ok)
        \/ \E ok \in BOOLEAN : telnetKill(c, ok)
        \/ \E ok \in BOOLEAN : emitShutdownDevice(c, ok)

Spec == Init /\ [][Next]_vars

----------------------------------------------------------------------------
(* _validateAvd and _fixEmulatorConfigIniSkinNameIfNeeded over the config.ini
   files: acquireFreeDevice up to the answer of the registry *)

InitRepair ==
    /\ avds = <<Pixel, Nexus>>
    /\ \E cfg \in ConfigInputs : config = [n \in {Pixel, Nexus} |->
                    IF n = Pixel THEN cfg ELSE CorruptConfig]
    /\ pendingBoots = {}
    /\ running = {}
    /\ busy = {}
    /\ killed = {}
    /\ calls = 0
    /\ pc = [c \in Callers |-> "idle"]
    /\ op = [c \in Callers |-> "none"]
    /\ arg = [c \in Callers |-> Undefined]
    /\ adbName = [c \in Callers |-> Undefined]
    /\ coldBoot = [c \in Callers |-> FALSE]
    /\ err = [c \in Callers |-> NoError]
    /\ result = [c \in Callers |-> Undefined]
    /\ telnet = [c \in Callers |-> "none"]
    /\ log = [c \in Callers |-> <<>>]

NextRepair ==
    \E c \in Callers :
        \/ \E avdName \in AvdNames : acquireFreeDevice(c, avdName)
        \/ validateAvd(c)
        \/ fixEmulatorConfigIniSkinNameIfNeeded(c)
        \/ \E k \in RandomDraws : getDevice(c, k)
        \/ getDeviceFails(c)

SpecRepair == InitRepair /\ [][NextRepair]_vars

----------------------------------------------------------------------------
(* _createDevice over the draws of Math.random() *)

\* the registry calls the createDevice hook for caller c, on a driver that has
\* minted nothing yet
mintDevice(c, k) ==
    LET made == createDeviceDrawing(k, MintSteps)
    IN
    /\ pendingBoots = {}
    /\ pc[c] = "idle"
    /\ pendingBoots' = made.pendingBoots
    /\ adbName' = [adbName EXCEPT ![c] = made.adbName]
    /\ log' = [log EXCEPT ![c] =
            <<Call("createDevice", <<made.adbName, made.port>>, "resolved")>>]
    /\ UNCHANGED <<avds, config, running, busy, killed, calls, pc, op, arg,
                   coldBoot, err, result, telnet>>

NextMint == \E c \in Callers : \E k \in MintDraws : mintDevice(c, k)

SpecMint == Init /\ [][NextMint]_vars

----------------------------------------------------------------------------
(* Vocabulary of the properties *)

Count(c, name) == Cardinality(Issued(c, name))

\* the entry of the only step `name` the current call of c ran
Entry(c, name) == log[c][CHOOSE i \in Issued(c, name) : TRUE]

Acquiring(c) == op[c] = "acquire"
ShuttingDown(c) == op[c] = "shutdown"

\* the registry minted the device of c's current acquisition
Minted(c) == Acquiring(c) /\ Count(c, "createDevice") > 0

\* the registry answered c's current acquisition, and _bootIfNeeded has decided
BootDecided(c) ==
    /\ Acquiring(c)
    /\ adbName[c] # Undefined
    /\ pc[c] # "bootIfNeeded"

\* every step but the last one has resolved
EachStepAfterSuccess(c) ==
    \A i \in 1..(Len(log[c]) - 1) : log[c][i].res = "resolved"

RankIn(order, name) == CHOOSE i \in 1..Len(order) : order[i] = name

\* the steps of c's current call, each after the steps that `order` puts
\* before it, none twice, all of `required` that precede a step having run
FollowsOrder(c, order, required) ==
    /\ \A i \in 1..Len(log[c]) : log[c][i].call \in Range(order)
    /\ \A i, j \in 1..Len(log[c]) :
          i < j => RankIn(order, log[c][i].call) < RankIn(order, log[c][j].call)
    /\ \A i \in 1..Len(log[c]) : \A r \in required :
          RankIn(order, r) < RankIn(order, log[c][i].call) => Count(c, r) = 1

----------------------------------------------------------------------------
\* C1: an acquisition whose device the registry minted issues exactly one boot
\* command, with the AVD name and the port reserved when minting; an
\* acquisition whose device already existed issues none.
C1_ColdBootsOnceWarmNever ==
    \A c \in Callers :
        BootDecided(c) =>
            IF Minted(c)
            THEN /\ Count(c, "boot") = 1
                 /\ Entry(c, "boot").arg = <<arg[c], Entry(c, "createDevice").arg[2]>>
            ELSE Count(c, "boot") = 0

----------------------------------------------------------------------------
AcquireOrder ==
    <<"validateAvd", "fixConfig", "getDeviceIdsByType", "createDevice", "getDevice",
      "boot", "waitForBoot", "emit:bootDevice", "apiLevel", "unlockScreen">>

AcquireRequired ==
    {"validateAvd", "fixConfig", "getDevice",
     "waitForBoot", "emit:bootDevice", "apiLevel", "unlockScreen"}

\* C2: acquireFreeDevice runs validate, repair, getDevice, (boot when cold),
\* boot polling, the bootDevice notification, apiLevel and unlockScreen in that
\* order, each after the previous one resolved; after a step that failed no
\* step runs and nothing is returned; the device id is returned only after
\* unlockScreen resolved.
C2_StepsInOrder ==
    \A c \in Callers :
        Acquiring(c) =>
            /\ FollowsOrder(c, AcquireOrder, AcquireRequired)
            /\ EachStepAfterSuccess(c)
            /\ Count(c, "boot") = 1 => coldBoot[c]
            /\ pc[c] = "failed" =>
                  /\ result[c] = Undefined
                  /\ log[c][Len(log[c])].res = "rejected"
            /\ result[c] # Undefined => pc[c] = "returned"
            /\ pc[c] = "returned" =>
                  /\ result[c] = adbName[c]
                  /\ result[c] # Undefined
                  /\ log[c][Len(log[c])] = Call("unlockScreen", <<adbName[c]>>, "resolved")

C2_Witness ==
    \E c \in Callers :
        /\ Acquiring(c)
        /\ pc[c] = "returned"
        /\ Count(c, "boot") = 1
        /\ Len(log[c]) = Len(AcquireOrder)

----------------------------------------------------------------------------
\* C3: for an AVD name that is not in the (non-empty) list of installed AVDs,
\* acquireFreeDevice fails with ProfileNotFound after the validation alone:
\* no config.ini is read or written, the registry is not asked, no hook runs
\* and no pendingBoots entry is made.
C3_UnknownAvdStopsAtValidation ==
    \A c \in Callers :
        (Acquiring(c) /\ avds # Undefined /\ arg[c] \notin Range(avds)) =>
            /\ pc[c] \in {"validateAvd", "failed"}
            /\ pc[c] = "validateAvd" => log[c] = <<>>
            /\ pc[c] = "failed" =>
                  /\ log[c] = <<Call("validateAvd", <<arg[c]>>, "rejected")>>
                  /\ err[c].kind = "ProfileNotFound"
            /\ adbName[c] = Undefined

C3_Witness ==
    \E c \in Callers :
        /\ Acquiring(c)
        /\ avds # Undefined
        /\ arg[c] \notin Range(avds)
        /\ pc[c] = "failed"
        /\ pendingBoots # {}

----------------------------------------------------------------------------
\* C4: when isBootComplete answers false at every check, the polling makes
\* exactly 120 checks and the acquisition then fails with a BootTimeout error
\* that names the device.
C4_PollingGivesUpAfter120 ==
    \A c \in Callers :
        (Count(c, "waitForBoot") > 0 /\ Entry(c, "waitForBoot").arg[3] > 120) =>
            /\ Entry(c, "waitForBoot").arg[2] = 120
            /\ Entry(c, "waitForBoot").res = "rejected"
            /\ pc[c] = "failed"
            /\ err[c] = Error("BootTimeout", adbName[c])
            /\ adbName[c] # Undefined

C4_Witness ==
    \E c \in Callers :
        /\ Count(c, "waitForBoot") > 0
        /\ Entry(c, "waitForBoot").arg[3] > 120
        /\ pc[c] = "failed"

----------------------------------------------------------------------------
\* C5: when the first true answer of isBootComplete is the k-th one
\* (1 <= k <= 120), the polling makes exactly k checks, resolves, and the
\* acquisition goes on: no not-ready condition reaches the caller.
C5_PollingStopsAtFirstTrue ==
    \A c \in Callers :
        (/\ Count(c, "waitForBoot") > 0
         /\ Entry(c, "waitForBoot").arg[3] >= 1
         /\ Entry(c, "waitForBoot").arg[3] <= 120) =>
            /\ Entry(c, "waitForBoot").arg[2] = Entry(c, "waitForBoot").arg[3]
            /\ Entry(c, "waitForBoot").res = "resolved"
            /\ err[c].kind # "BootTimeout"
            /\ Count(c, "emit:bootDevice") = 0 => pc[c] = "emitBootDevice"

C5_Witness ==
    \E c, d \in Callers :
        /\ Count(c, "waitForBoot") > 0
        /\ Entry(c, "waitForBoot").arg[2] = 120
        /\ Entry(c, "waitForBoot").res = "resolved"
        /\ pc[c] = "returned"
        /\ Count(d, "waitForBoot") > 0
        /\ Entry(d, "waitForBoot").arg[2] = 1
        /\ Entry(d, "waitForBoot").res = "resolved"

----------------------------------------------------------------------------
ShutdownOrder ==
    <<"emit:beforeShutdownDevice", "connect", "kill", "emit:shutdownDevice">>

\* deviceId is "emulator-" followed by decimal digits
WellFormed(deviceId) ==
    /\ Len(deviceId) > 9
    /\ SubSeq(deviceId, 1, 9) = <<"e", "m", "u", "l", "a", "t", "o", "r", "-">>
    /\ \A i \in 10..Len(deviceId) : deviceId[i] \in Range(Digits)

\* the decimal port a well-formed device id ends with
PortText(deviceId) == SubSeq(deviceId, 10, Len(deviceId))

NoSeparator(deviceId) == \A i \in 1..Len(deviceId) : deviceId[i] # "-"

\* C6: a shutdown call that has ended, resolved or rejected, has closed the
\* control session it opened.
C6_SessionClosedWhenShutdownEnds ==
    \A c \in Callers :
        (ShuttingDown(c) /\ pc[c] \in {"returned", "failed"}) => telnet[c] # "open"

----------------------------------------------------------------------------
\* C7: a bootDevice observer that fails does not fail the acquisition whose
\* other steps succeed.
C7_ObserverFailureDoesNotFailAcquisition ==
    \A c \in Callers :
        (/\ Acquiring(c)
         /\ Count(c, "emit:bootDevice") > 0
         /\ Entry(c, "emit:bootDevice").res = "rejected") => pc[c] # "failed"

----------------------------------------------------------------------------
\* C8: shutdown of a well-formed device id emits beforeShutdownDevice, then
\* connects to the port that follows the '-' of the id, then kills, then emits
\* shutdownDevice, each with {deviceId} and each after the previous one
\* resolved; shutdownDevice is emitted only after kill resolved.
C8_ShutdownStepsInOrder ==
    \A c \in Callers :
        (ShuttingDown(c) /\ WellFormed(arg[c])) =>
            /\ FollowsOrder(c, ShutdownOrder, Range(ShutdownOrder))
            /\ EachStepAfterSuccess(c)
            /\ Count(c, "emit:beforeShutdownDevice") = 1
            /\ Entry(c, "emit:beforeShutdownDevice").arg = <<arg[c]>>
            /\ Count(c, "connect") = 1 => Entry(c, "connect").arg[1] = PortText(arg[c])
            /\ Count(c, "kill") = 1 => Entry(c, "kill").arg[1] = PortText(arg[c])
            /\ Count(c, "emit:shutdownDevice") = 1 =>
                  /\ Entry(c, "kill").res = "resolved"
                  /\ Entry(c, "emit:shutdownDevice").arg = <<arg[c]>>
            /\ pc[c] = "returned" => Len(log[c]) = Len(ShutdownOrder)

C8_Witness ==
    \E c \in Callers :
        /\ ShuttingDown(c)
        /\ pc[c] = "returned"
        /\ arg[c] \in MintableIds
        /\ log[c][2] = Call("connect", <<PortText(arg[c]), FALSE>>, "resolved")
        /\ \E d \in Callers :
              /\ ShuttingDown(d)
              /\ arg[d] = ExampleDeviceId
              /\ Count(d, "connect") = 1
              /\ Entry(d, "connect").arg[1] = <<"5", "5", "5", "4">>

----------------------------------------------------------------------------
\* C9: shutdown of a device id without '-' fails without connecting to any
\* port and without a kill command.
C9_MalformedIdNeverConnects ==
    \A c \in Callers :
        (ShuttingDown(c) /\ NoSeparator(arg[c])) =>
            /\ Count(c, "connect") = 0
            /\ Count(c, "kill") = 0
            /\ pc[c] # "returned"

----------------------------------------------------------------------------
\* C10: a shutdown call connects at most once and kills at most once; when
\* the connect or the kill is rejected the call fails with that error and
\* shutdownDevice is not emitted; a connect to the port of an instance that a
\* kill has ended (and that was not booted again) is rejected.
C10_ControlChannelFailureIsFatal ==
    \A c \in Callers :
        ShuttingDown(c) =>
            /\ Count(c, "connect") <= 1
            /\ Count(c, "kill") <= 1
            /\ \A i \in 1..Len(log[c]) :
                  (log[c][i].call \in {"connect", "kill"} /\ log[c][i].res = "rejected") =>
                      /\ i = Len(log[c])
                      /\ pc[c] = "failed"
                      /\ err[c] = Error("ControlChannelError", arg[c])
                      /\ Count(c, "emit:shutdownDevice") = 0
            /\ (Count(c, "connect") = 1 /\ Entry(c, "connect").arg[2]) =>
                  /\ Entry(c, "connect").res = "rejected"
                  /\ Count(c, "kill") = 0

C10_Witness ==
    \E c \in Callers :
        /\ ShuttingDown(c)
        /\ Count(c, "connect") = 1
        /\ Entry(c, "connect").arg[2]
        /\ pc[c] = "failed"
        /\ ~Listening(PortText(arg[c]))

----------------------------------------------------------------------------
\* the number a string of decimal digits denotes
RECURSIVE DecimalValue(_)
DecimalValue(text) ==
    IF Len(text) = 0 THEN 0
    ELSE 10 * DecimalValue(SubSeq(text, 1, Len(text) - 1))
         + (CHOOSE d \in 0..9 : Digits[d + 1] = text[Len(text)])

----------------------------------------------------------------------------
\* caller c runs _fixEmulatorConfigIniSkinNameIfNeeded in this step
RepairStep(c) == pc[c] = "fixConfig" /\ pc'[c] # "fixConfig"

\* C12: run on a config.ini without skin.name and with hw.lcd.width W and
\* hw.lcd.height H, the repair sets skin.name to W, "x", H and changes no
\* other key of any config.ini; run on the repaired config.ini it writes
\* nothing and leaves it as it is.
C12_RepairSetsSkinNameOnce ==
    [][\A c \in Callers :
          RepairStep(c) =>
              LET before == config[arg[c]]
                  after == config'[arg[c]]
                  W == before["hw.lcd.width"]
                  H == before["hw.lcd.height"]
              IN  /\ (before["skin.name"] = Undefined /\ W # Undefined /\ H # Undefined) =>
                        /\ after["skin.name"] = W \o <<"x">> \o H
                        /\ \A k \in ConfigKeys \ {"skin.name"} : after[k] = before[k]
                        /\ \A n \in DOMAIN config \ {arg[c]} : config'[n] = config[n]
                        /\ pc'[c] = "getDevice"
                        /\ FixSkinName(after) =
                              [error |-> "none", wrote |-> FALSE, config |-> after]
                  /\ (W # Undefined /\ H # Undefined
                        /\ before["skin.name"] = W \o <<"x">> \o H) =>
                        /\ config' = config
                        /\ pc'[c] = "getDevice"
                        /\ log'[c][Len(log'[c])] =
                              Call("fixConfig", <<arg[c], FALSE>>, "resolved")
      ]_vars

C12_Witness ==
    \E c, d \in Callers :
        /\ c # d
        /\ arg[c] = Pixel
        /\ arg[d] = Pixel
        /\ Count(c, "fixConfig") = 1
        /\ Entry(c, "fixConfig") = Call("fixConfig", <<Pixel, TRUE>>, "resolved")
        /\ Count(d, "fixConfig") = 1
        /\ Entry(d, "fixConfig") = Call("fixConfig", <<Pixel, FALSE>>, "resolved")
        /\ config[Pixel] =
              [RepairableConfig EXCEPT !["skin.name"] =
                  <<"1", "0", "8", "0", "x", "1", "9", "2", "0">>]

----------------------------------------------------------------------------
\* the steps that ask the registry for a device
PoolSteps == {"getDeviceIdsByType", "createDevice", "getDevice"}

\* C13: run on a config.ini without skin.name and without hw.lcd.width or
\* hw.lcd.height, the repair fails with CorruptProfileConfig and writes no
\* config.ini, and acquireFreeDevice ends there: the registry is not asked.
C13_CorruptConfigStopsAcquisition ==
    [][\A c \in Callers :
          /\ RepairStep(c) =>
              LET before == config[arg[c]]
              IN  (/\ before["skin.name"] = Undefined
                   /\ \/ before["hw.lcd.width"] = Undefined
                      \/ before["hw.lcd.height"] = Undefined) =>
                        /\ config' = config
                        /\ pc'[c] = "failed"
                        /\ err'[c] = Error("CorruptProfileConfig", Undefined)
                        /\ log'[c][Len(log'[c])] =
                              Call("fixConfig", <<arg[c], FALSE>>, "rejected")
                        /\ busy' = busy
                        /\ pendingBoots' = pendingBoots
          /\ err'[c].kind = "CorruptProfileConfig" =>
                /\ pc'[c] = "failed"
                /\ adbName'[c] = Undefined
                /\ \A i \in 1..Len(log'[c]) : log'[c][i].call \notin PoolSteps
      ]_vars

C13_Witness ==
    \E c, d \in Callers :
        /\ arg[c] = Pixel
        /\ config[Pixel]["skin.name"] = Undefined
        /\ config[Pixel]["hw.lcd.width"] = W1080
        /\ config[Pixel]["hw.lcd.height"] = Undefined
        /\ arg[d] = Nexus
        /\ config[Nexus]["hw.lcd.width"] = Undefined
        /\ \A x \in {c, d} :
              /\ pc[x] = "failed"
              /\ err[x].kind = "CorruptProfileConfig"
              /\ Count(x, "fixConfig") = 1
              /\ Count(x, "getDevice") = 0

----------------------------------------------------------------------------
\* C14: the device id minted for an acquisition is a key of pendingBoots
\* exactly as long as no boot command has been issued for it.
C14_PendingIffNotStarted ==
    \A c \in Callers :
        Minted(c) =>
            (PendingPort(Entry(c, "createDevice").arg[1]) # 0 <=> Count(c, "boot") = 0)

----------------------------------------------------------------------------
\* C15: once the boot command of an acquisition has returned, resolved or
\* rejected, the device id is no longer a key of pendingBoots.
C15_PendingClearedAfterBoot ==
    \A c \in Callers :
        (/\ Acquiring(c)
         /\ Count(c, "boot") = 1
         /\ Entry(c, "boot").res \in {"resolved", "rejected"}) =>
            PendingPort(adbName[c]) = 0

----------------------------------------------------------------------------
\* the registry asks the hooks for caller c in this step
PoolStep(c) == pc[c] = "getDevice" /\ pc'[c] = "bootIfNeeded"

\* C16: what _getDeviceIdsByType answers is the id of a running instance of
\* the requested AVD that the registry does not hold as taken, and it answers
\* none when every running instance of that AVD is taken.
C16_LookupAnswersIdleInstance ==
    [][\A c \in Callers :
          PoolStep(c) =>
              LET i == CHOOSE j \in 1..Len(log'[c]) : log'[c][j].call = "getDeviceIdsByType"
                  found == log'[c][i].arg[2]
              IN  /\ found # Undefined =>
                        /\ \E d \in running : d.adbName = found /\ d.name = arg[c]
                        /\ found \notin busy
                  /\ (\A d \in running : d.name = arg[c] => d.adbName \in busy) =>
                        found = Undefined
      ]_vars

----------------------------------------------------------------------------
\* the acquisition of c has a device and has not failed
Holds(c) == Acquiring(c) /\ adbName[c] # Undefined /\ pc[c] # "failed"

\* C17: no device id is held by two callers at once; in particular two
\* acquisitions in flight are never given the same newly minted id.
C17_NoIdHeldTwice ==
    \A c, d \in Callers :
        (c # d /\ Holds(c) /\ Holds(d)) => adbName[c] # adbName[d]

----------------------------------------------------------------------------
\* the steps of an acquisition that come before the bootDevice notification
StepsBeforeNotification == {"validateAvd", "fixConfig", "getDevice", "boot", "waitForBoot"}

\* C18: an acquisition emits bootDevice at most once, and once when its boot
\* polling has succeeded: right after the polling resolved, before apiLevel
\* and unlockScreen, with the device id the registry gave and with coldBoot
\* true exactly when this acquisition issued a boot command; an acquisition
\* whose validation, repair, registry request, boot or polling failed emits
\* none.
C18_OneNotificationAfterPolling ==
    \A c \in Callers :
        Acquiring(c) =>
            /\ Count(c, "emit:bootDevice") <= 1
            /\ Count(c, "emit:bootDevice") = 1 =>
                  LET i == CHOOSE j \in Issued(c, "emit:bootDevice") : TRUE
                  IN  /\ i > 1
                      /\ log[c][i - 1].call = "waitForBoot"
                      /\ \A j \in 1..(i - 1) :
                            /\ log[c][j].res = "resolved"
                            /\ log[c][j].call \notin {"apiLevel", "unlockScreen"}
                      /\ Count(c, "getDevice") = 1
                      /\ log[c][i].arg = <<Count(c, "boot") = 1, Entry(c, "getDevice").arg[2]>>
            /\ (/\ Count(c, "waitForBoot") = 1
                /\ Entry(c, "waitForBoot").res = "resolved"
                /\ pc[c] # "emitBootDevice") => Count(c, "emit:bootDevice") = 1
            /\ (\E j \in 1..Len(log[c]) :
                    /\ log[c][j].call \in StepsBeforeNotification
                    /\ log[c][j].res = "rejected") => Count(c, "emit:bootDevice") = 0
            /\ Count(c, "apiLevel") + Count(c, "unlockScreen") > 0 =>
                  Count(c, "emit:bootDevice") = 1

C18_Witness ==
    \E c, d \in Callers :
        /\ Acquiring(c)
        /\ pc[c] = "returned"
        /\ Count(c, "boot") = 1
        /\ Entry(c, "emit:bootDevice").arg = <<TRUE, result[c]>>
        /\ Acquiring(d)
        /\ Count(d, "boot") = 0
        /\ Count(d, "emit:bootDevice") = 1
        /\ Entry(d, "emit:bootDevice").arg = <<FALSE, adbName[d]>>

----------------------------------------------------------------------------
\* C19: for a device that an acquisition boots, the port given to the boot
\* command, the decimal port in the device id the acquisition returns and the
\* port a later shutdown of that id connects to (and kills) are one number.
C19_OnePortFromBootToShutdown ==
    \A c \in Callers :
        (Acquiring(c) /\ Count(c, "boot") = 1) =>
            /\ WellFormed(adbName[c])
            /\ DecimalValue(PortText(adbName[c])) = Entry(c, "boot").arg[2]
            /\ Minted(c) => Entry(c, "createDevice").arg = <<adbName[c], Entry(c, "boot").arg[2]>>
            /\ pc[c] = "returned" => result[c] = adbName[c]
            /\ \A d \in Callers :
                  (ShuttingDown(d) /\ arg[d] = adbName[c]) =>
                      /\ Count(d, "connect") = 1 =>
                            DecimalValue(Entry(d, "connect").arg[1]) = Entry(c, "boot").arg[2]
                      /\ Count(d, "kill") = 1 =>
                            DecimalValue(Entry(d, "kill").arg[1]) = Entry(c, "boot").arg[2]

C19_Witness ==
    \E c, d \in Callers :
        /\ Acquiring(c)
        /\ pc[c] = "returned"
        /\ Count(c, "boot") = 1
        /\ Entry(c, "boot").res = "resolved"
        /\ ShuttingDown(d)
        /\ arg[d] = result[c]
        /\ Count(d, "connect") = 1
        /\ Entry(d, "connect").res = "resolved"
        /\ Count(d, "kill") = 1
        /\ Entry(d, "kill").res = "resolved"
        /\ DecimalValue(Entry(d, "connect").arg[1]) = Entry(c, "boot").arg[2]

----------------------------------------------------------------------------
\* the acquisition of c is between its start and its end
InFlight(c) == Acquiring(c) /\ pc[c] \notin {"idle", "returned", "failed"}

\* the acquisitions in flight that have a device have different devices
DistinctInFlight ==
    \A c, d \in Callers :
        (c # d /\ InFlight(c) /\ InFlight(d) /\ adbName[c] # Undefined) =>
            adbName[c] # adbName[d]

\* C20: as long as the acquisitions in flight have different device ids,
\* each of them has issued at most one boot command, no two of them a boot
\* command for the same port, and a step of one acquisition (the delete of
\* line 51 included) leaves the pendingBoots entry of every other
\* acquisition in flight as it was.
C20_InFlightEntriesIndependent ==
    [][(DistinctInFlight /\ DistinctInFlight') =>
          \A c, d \in Callers :
              /\ InFlight(c)' => (Count(c, "boot") <= 1)'
              /\ (c # d /\ InFlight(c)' /\ InFlight(d)'
                    /\ (Count(c, "boot") = 1)' /\ (Count(d, "boot") = 1)') =>
                    (Entry(c, "boot").arg[2] # Entry(d, "boot").arg[2])'
              /\ (c # d /\ pc'[c] # pc[c] /\ InFlight(d) /\ adbName[d] # Undefined) =>
                    PendingPort(adbName[d])' = PendingPort(adbName[d])
      ]_vars

C20_Witness ==
    \E c, d \in Callers :
        /\ InFlight(c)
        /\ InFlight(d)
        /\ Minted(c)
        /\ Minted(d)
        /\ adbName[c] # adbName[d]
        /\ pc[c] = "waitForBoot"
        /\ Entry(c, "boot").res = "resolved"
        /\ PendingPort(adbName[c]) = 0
        /\ pc[d] = "booting"
        /\ PendingPort(adbName[d]) = Entry(d, "boot").arg[2]
        /\ PendingPort(adbName[d]) # 0

====
